---- MODULE Spec2Model ----
(***************************************************************************)
(* Model of Core/Debugger/WebSocket.cpp: the per-connection debugger       *)
(* protocol loop (HandleDebuggerRequest) and the process-wide shutdown     *)
(* synchronisation (UpdateConnected, StopAllDebuggers).                    *)
(*                                                                         *)
(* Threads: each element of Conns is a thread that serves upgrade requests *)
(* with HandleDebuggerRequest, each element of Drainers is a thread that   *)
(* calls StopAllDebuggers.  std::mutex stopLock is the variable stopLock   *)
(* (its owner), std::condition_variable stopCond is the set of drainers    *)
(* whose position is "waiting".                                            *)
(*                                                                         *)
(* stopRequested is read at line 124 without stopLock while line 144 may   *)
(* write it: the racing read yields the old or the new value of the bool,  *)
(* which are exactly the two orders of the read step and the write step,   *)
(* both of which the interleaving of CheckStop and StopSet produces.       *)
(*                                                                         *)
(* Everything a connection does between two accesses to the shared         *)
(* shutdown state touches only objects owned by its own thread (ws, the    *)
(* dispatch table, the broadcasters), so one loop iteration up to the read *)
(* of stopRequested is one step, LoopBody, that records in iter[c] the     *)
(* order of what it did.                                                   *)
(***************************************************************************)
EXTENDS Integers, Sequences, FiniteSets, TLC

Conns == {"c1", "c2"}
Drainers == {"d1", "d2"}
NoThread == "none"

\* Bounds of the model: upgrade requests served, StopAllDebuggers calls made.
MaxOpens == 2
MaxStops == 2

VARIABLES
    debuggersConnected,   \* static volatile int debuggersConnected
    stopRequested,        \* static volatile bool stopRequested
    stopLock,             \* owner of std::mutex stopLock, or NoThread
    cpc,                  \* position of each connection thread
    dpc,                  \* position of each StopAllDebuggers caller
    ws,                   \* per connection: the WebSocketServer object
    eventHandlers,        \* per connection: the dispatch table (line 85)
    subscriberData,       \* per connection: the contexts returned by init (line 86)
    iter,                 \* per connection: what the current loop iteration has done
    hadBad,               \* per connection: kinds of protocol error seen so far
    subLog,               \* per connection: the calls made to the subscribers, in order
    updates,              \* per connection thread: counter updates of its current or last call
    late,                 \* per connection: the callers blocked, and the flag, when it was counted
    nOpens,               \* upgrade requests served so far
    nStops,               \* StopAllDebuggers calls made so far
    pending,              \* per drainer: connections counted at its call, not yet decremented
    active,               \* per drainer: connections upgraded at its call, loop not yet exited
    hist,                 \* per drainer: what the current call has seen and done
    drained,              \* calls that have returned after waiting for a connection
    recording,            \* whether pending, active and hist are kept (never changes)
    recordingConn         \* whether updates and late are kept (never changes)

shared == <<debuggersConnected, stopRequested, stopLock>>
connLocal == <<ws, eventHandlers, subscriberData, iter, hadBad, subLog>>
connHist == <<updates, late, recordingConn>>
drainHist == <<pending, active, hist>>
vars == <<shared, cpc, dpc, connLocal, nOpens, nStops, drainHist, connHist, drained, recording>>

----------------------------------------------------------------------------
(* The shutdown state, lines 61..71 and 141..150 *)

\* line 69, were it (debuggersConnected = delta)
AddDeltaAssigns(n, delta) == delta

\* line 69: debuggersConnected += delta
AddDelta(n, delta) == n + delta

\* line 70, were the notification left out
NotifyAllNone(d) == d

\* line 70: stopCond.notify_all() moves every waiter out of the wait
NotifyAll(d) == [x \in Drainers |-> IF d[x] = "waiting" THEN "woken" ELSE d[x]]

\* line 143, were the test (debuggersConnected > 1), or (debuggersConnected >= 0)
LoopCondOffByOne(n) == n > 1
LoopCondAlways(n) == n >= 0

\* line 143: while (debuggersConnected != 0)
LoopCond(n) == n # 0

\* line 144: stopRequested = true
SetValue == TRUE

\* line 149, were the flag left set
ResetValueKept == TRUE

\* line 149: stopRequested = false
ResetValue == FALSE

\* line 124, were the test (!stopRequested)
ShouldCloseInverted(flag) == ~flag

\* line 124: if (stopRequested) decides whether line 125 calls ws->Close
ShouldClose(flag) == flag

----------------------------------------------------------------------------
(* Messages and responses *)

NULL == "null"
NoEvent == "<no event>"
NoTicket == "<no ticket>"
NoHandler == "<no handler>"

\* LogTypes::LERROR, the level of every error event sent here (line 39: 2 = ERROR)
LERROR == 2

\* lines 56..59: the subscribers, in their fixed order; neither declares a shutdown.
subscribers == << [init |-> "WebSocketCPUCoreInit", shutdown |-> NULL],
                  [init |-> "WebSocketGameInit", shutdown |-> NULL] >>

\* The event names each subscriber's init registers in the table.
Registers(init) ==
    CASE init = "WebSocketCPUCoreInit" -> {"cpu.getAllRegs"}
      [] init = "WebSocketGameInit" -> {"game.status"}
      [] OTHER -> {}

\* The context each subscriber's init returns: none, as neither has a shutdown.
InitContext(init) == NULL

\* Event names a peer may send: the registered ones, a name that differs from
\* a registered one in case only, and an unrelated one.
InputEvents == {"cpu.getAllRegs", "game.status", "CPU.getAllRegs", "nope"}
Tickets == {NoTicket, "t1"}

\* An inbound frame: its type, whether its payload parses as JSON, whether the
\* parsed document has a root object, and the event and ticket fields its text holds.
AllMsgs ==
    { m \in [frame : {"text", "binary"}, wellFormed : BOOLEAN, hasRoot : BOOLEAN,
             event : InputEvents \cup {NoEvent}, ticket : Tickets] :
        /\ (~m.wellFormed => (~m.hasRoot /\ m.event \in {NoEvent, "cpu.getAllRegs"}))
        /\ ((m.wellFormed /\ ~m.hasRoot) => (m.event = NoEvent /\ m.ticket = NoTicket)) }

NoMsg == [frame |-> "none", wellFormed |-> FALSE, hasRoot |-> FALSE,
          event |-> NoEvent, ticket |-> NoTicket]

\* What a handler of a subscriber may do with the request before it returns.
HandlerActs == {"none", "respond", "fail"}

\* The record of a loop iteration: the frame handled, what the invoked handler
\* did, the messages sent in answer, the handler invoked, the order of the
\* steps taken, and whether the handling asked the transport to close.
IterNone == [msg |-> NoMsg, act |-> "none", sent |-> <<>>, invoked |-> NoHandler,
             trace |-> <<>>, close |-> FALSE]

----------------------------------------------------------------------------
(* The JSON reader, the error event and the request object of WebSocketUtils *)

NullRoot == [null |-> TRUE, event |-> NoEvent, ticket |-> NoTicket]

\* JsonReader::ok(): the payload parsed.
ReaderOk(t) == t.wellFormed

\* JsonReader::root(): the root of the parsed document, with the fields it holds.
Root(t) == IF t.wellFormed /\ t.hasRoot
           THEN [null |-> FALSE, event |-> t.event, ticket |-> t.ticket]
           ELSE NullRoot

\* DebuggerErrorEvent(message, level, root): an error event; it repeats the
\* ticket of the root it was given.
DebuggerErrorEvent(message, level, root) ==
    [kind |-> "error", event |-> "error", message |-> message, level |-> level,
     ticket |-> IF root.null THEN NoTicket ELSE root.ticket]

\* DebuggerRequest(event, ws, root)
DebuggerRequest(event, root) == [name |-> event, root |-> root]

\* DebuggerRequest::Respond and the default completion: an event named as the request.
Response(req) ==
    [kind |-> "response", event |-> req.name, message |-> "", level |-> 0,
     ticket |-> req.root.ticket]

\* DebuggerRequest::Fail(message): one error event for this request.
Fail(req, message) == << DebuggerErrorEvent(message, LERROR, req.root) >>

\* What the invoked handler sends: nothing, one response, or one failure.
RunHandler(act, req) ==
    CASE act = "respond" -> << Response(req) >>
      [] act = "fail" -> Fail(req, "handler failed")
      [] OTHER -> <<>>

\* DebuggerRequest::Finish(): the default completion unless the handler
\* already sent its terminal response.
Finish(req, handlerSent) == IF handlerSent # <<>> THEN <<>> ELSE << Response(req) >>

----------------------------------------------------------------------------
(* The handlers installed by HandleDebuggerRequest, lines 85..116 *)

\* lines 87..89: every init, in the order of subscribers, registers its names;
\* a later registration of a name replaces an earlier one.
RECURSIVE BuildHandlers(_, _)
BuildHandlers(subs, table) ==
    IF subs = <<>> THEN table
    ELSE LET names == Registers(Head(subs).init) IN
         BuildHandlers(Tail(subs),
             [n \in DOMAIN table \cup names |->
                 IF n \in names THEN Head(subs).init ELSE table[n]])

\* line 88: subscriberData.push_back(info.init(eventHandlers))
BuildData(subs) == [i \in 1..Len(subs) |-> InitContext(subs[i].init)]

EmptyTable == [n \in {} |-> NoHandler]

\* line 99: root ? root.getString("event", nullptr) : nullptr
GetEvent(root) == IF root.null THEN NoEvent ELSE root.event

\* line 106: eventHandlers.find(event) != eventHandlers.end()
Found(handlers, event) == event \in DOMAIN handlers

\* lines 105..112, were line 109 (req.Finish()) left out
DispatchNoFinish(event, root, handlers, act) ==
    LET req == DebuggerRequest(event, root) IN
    IF Found(handlers, event)
    THEN [sent |-> RunHandler(act, req), invoked |-> handlers[event],
          trace |-> <<"parse", "event", "lookup", "handler">>, close |-> FALSE]
    ELSE [sent |-> Fail(req, "Bad message: unknown event"), invoked |-> NoHandler,
          trace |-> <<"parse", "event", "lookup", "fail">>, close |-> FALSE]

\* lines 105..112: dispatch of a request that has an event name.
Dispatch(event, root, handlers, act) ==
    LET req == DebuggerRequest(event, root) IN
    IF Found(handlers, event)
    THEN LET h == RunHandler(act, req) IN
         [sent |-> h \o Finish(req, h), invoked |-> handlers[event],
          trace |-> <<"parse", "event", "lookup", "handler", "finish">>, close |-> FALSE]
    ELSE [sent |-> Fail(req, "Bad message: unknown event"), invoked |-> NoHandler,
          trace |-> <<"parse", "event", "lookup", "fail">>, close |-> FALSE]

\* lines 91..113, were the connection closed on a payload that does not parse
TextHandlerClosesOnBadJson(t, handlers, act) ==
    IF ~ReaderOk(t)
    THEN [sent |-> << DebuggerErrorEvent("Bad message: invalid JSON", LERROR, NullRoot) >>,
          invoked |-> NoHandler, trace |-> <<"parse", "send">>, close |-> TRUE]
    ELSE LET root == Root(t)
             event == GetEvent(root) IN
         IF event = NoEvent
         THEN [sent |-> << DebuggerErrorEvent("Bad message: no event property", LERROR, root) >>,
               invoked |-> NoHandler, trace |-> <<"parse", "event", "send">>, close |-> FALSE]
         ELSE Dispatch(event, root, handlers, act)

\* lines 91..113, were the test of reader.ok() (lines 93..96) left out
TextHandlerNoParseCheck(t, handlers, act) ==
    LET root == Root(t)
        event == GetEvent(root) IN
    IF event = NoEvent
    THEN [sent |-> << DebuggerErrorEvent("Bad message: no event property", LERROR, root) >>,
          invoked |-> NoHandler, trace |-> <<"event", "send">>, close |-> FALSE]
    ELSE Dispatch(event, root, handlers, act)

\* lines 91..113, were the root not handed to the error event of line 101
TextHandlerDropsRoot(t, handlers, act) ==
    IF ~ReaderOk(t)
    THEN [sent |-> << DebuggerErrorEvent("Bad message: invalid JSON", LERROR, NullRoot) >>,
          invoked |-> NoHandler, trace |-> <<"parse", "send">>, close |-> FALSE]
    ELSE LET root == Root(t)
             event == GetEvent(root) IN
         IF event = NoEvent
         THEN [sent |-> << DebuggerErrorEvent("Bad message: no event property", LERROR, NullRoot) >>,
               invoked |-> NoHandler, trace |-> <<"parse", "event", "send">>, close |-> FALSE]
         ELSE Dispatch(event, root, handlers, act)

\* lines 91..113: the text handler.
TextHandler(t, handlers, act) ==
    IF ~ReaderOk(t)
    THEN [sent |-> << DebuggerErrorEvent("Bad message: invalid JSON", LERROR, NullRoot) >>,
          invoked |-> NoHandler, trace |-> <<"parse", "send">>, close |-> FALSE]
    ELSE LET root == Root(t)
             event == GetEvent(root) IN
         IF event = NoEvent
         THEN [sent |-> << DebuggerErrorEvent("Bad message: no event property", LERROR, root) >>,
               invoked |-> NoHandler, trace |-> <<"parse", "event", "send">>, close |-> FALSE]
         ELSE Dispatch(event, root, handlers, act)

\* lines 114..116, were the payload of a binary frame tested as line 93 tests a text
BinaryHandlerParses(d) ==
    IF ~ReaderOk(d)
    THEN [sent |-> << DebuggerErrorEvent("Bad message: invalid JSON", LERROR, NullRoot) >>,
          invoked |-> NoHandler, trace |-> <<"parse", "send">>, close |-> FALSE]
    ELSE [sent |-> << DebuggerErrorEvent("Bad message", LERROR, NullRoot) >>,
          invoked |-> NoHandler, trace |-> <<"parse", "send">>, close |-> FALSE]

\* lines 114..116: the binary handler.
BinaryHandler(d) ==
    [sent |-> << DebuggerErrorEvent("Bad message", LERROR, NullRoot) >>,
     invoked |-> NoHandler, trace |-> <<"send">>, close |-> FALSE]

\* WebSocketServer::Process hands a text frame to the text handler and a
\* binary frame to the binary handler.
OnFrame(m, handlers, act) ==
    IF m.frame = "text" THEN TextHandler(m, handlers, act) ELSE BinaryHandler(m)

\* lines 120..122, were the poll of the game broadcaster left out
BroadcastOrderNoGame == <<"log", "stepping">>

\* lines 120..122: logger, game, stepping are polled in this order.
BroadcastOrder == <<"log", "game", "stepping">>

\* The kind of protocol error a frame is, or "ok" for a request that is dispatched.
ErrorKind(m, handlers) ==
    CASE m.frame = "binary" -> "binary"
      [] ~m.wellFormed -> "invalid JSON"
      [] GetEvent(Root(m)) = NoEvent -> "no event"
      [] GetEvent(Root(m)) \notin DOMAIN handlers -> "unknown event"
      [] OTHER -> "ok"

\* Positions at which a connection has executed UpdateConnected(1) and not
\* yet UpdateConnected(-1) (after line 69 of the first, before line 69 of the second).
CountedPcs == {"init", "process", "checkstop", "teardown", "delete", "close_lock",
               "close_add"}

\* Positions from the successful upgrade (line 74) to the exit of the loop (line 127).
ActivePcs == {"upgraded", "open_add", "init", "process", "checkstop"}

Counted(c) == cpc[c] \in CountedPcs
Active(c) == cpc[c] \in ActivePcs

\* What a StopAllDebuggers call has seen and done: the counter when it was
\* called, the counter at its first test of the loop condition, whether it
\* has set stopRequested, whether it has waited on stopCond.
\* The value a history variable takes: the new one where the history is kept.
Rec(old, new) == IF recording THEN new ELSE old

RecConn(old, new) == IF recordingConn THEN new ELSE old

\* The updates of the counter a HandleDebuggerRequest call has made.
UpdatesNone == [inc |-> 0, dec |-> 0]

\* A caller inside stopCond.wait (line 145): it has set stopRequested and has
\* not yet reacquired stopLock.
Blocked(d) == dpc[d] \in {"waiting", "woken"}

\* What a connection found when it executed UpdateConnected(1): the callers
\* blocked in stopCond.wait and the value of stopRequested.
LateNone == [callers |-> {}, flag |-> FALSE]

\* lines 87..89: the calls of the init functions, in the order of subscribers.
InitCalls(subs) ==
    [i \in 1..Len(subs) |->
        [op |-> "init", sub |-> i, fn |-> subs[i].init, ctx |-> InitContext(subs[i].init)]]

\* lines 129..135, were the test of line 130 left out
RECURSIVE ShutdownCallsUnchecked(_, _, _)
ShutdownCallsUnchecked(subs, data, i) ==
    IF i > Len(subs) THEN <<>>
    ELSE << [op |-> "shutdown", sub |-> i, fn |-> subs[i].shutdown, ctx |-> data[i]] >>
            \o ShutdownCallsUnchecked(subs, data, i + 1)

\* lines 129..135: from index i on, a subscriber that has a shutdown gets it
\* called with its context, and one that has none has its context asserted null.
RECURSIVE ShutdownCalls(_, _, _)
ShutdownCalls(subs, data, i) ==
    IF i > Len(subs) THEN <<>>
    ELSE (IF subs[i].shutdown # NULL
          THEN << [op |-> "shutdown", sub |-> i, fn |-> subs[i].shutdown, ctx |-> data[i]] >>
          ELSE << [op |-> "assert", sub |-> i, fn |-> NULL, ctx |-> data[i]] >>)
            \o ShutdownCalls(subs, data, i + 1)

FirstSeen(n) == IF n = 0 THEN "zero" ELSE "nonzero"
HistInit == [atCall |-> -1, first |-> "none", didSet |-> FALSE, waited |-> FALSE]

----------------------------------------------------------------------------
\* The state before any request is served; rec says whether the histories of
\* the StopAllDebuggers calls are kept, recConn whether those of the
\* HandleDebuggerRequest calls are.
InitBoth(rec, recConn) ==
    /\ recording = rec
    /\ recordingConn = recConn
    /\ debuggersConnected = 0
    /\ stopRequested = FALSE
    /\ stopLock = NoThread
    /\ cpc = [c \in Conns |-> "idle"]
    /\ dpc = [d \in Drainers |-> "idle"]
    /\ ws = [c \in Conns |-> NULL]
    /\ eventHandlers = [c \in Conns |-> EmptyTable]
    /\ subscriberData = [c \in Conns |-> <<>>]
    /\ iter = [c \in Conns |-> IterNone]
    /\ hadBad = [c \in Conns |-> {}]
    /\ subLog = [c \in Conns |-> <<>>]
    /\ updates = [c \in Conns |-> UpdatesNone]
    /\ late = [c \in Conns |-> LateNone]
    /\ nOpens = 0
    /\ nStops = 0
    /\ pending = [d \in Drainers |-> {}]
    /\ active = [d \in Drainers |-> {}]
    /\ hist = [d \in Drainers |-> HistInit]
    /\ drained = 0

InitWith(rec) == InitBoth(rec, FALSE)

Init == InitWith(TRUE)

----------------------------------------------------------------------------
(* HandleDebuggerRequest, lines 73..139 *)

\* lines 74..79, were UpdateConnected(1) called before the test of line 75
UpgradeFailsCounted(c) ==
    /\ cpc[c] = "idle"
    /\ nOpens < MaxOpens
    /\ stopLock = NoThread
    /\ nOpens' = nOpens + 1
    /\ debuggersConnected' = AddDelta(debuggersConnected, 1)
    /\ dpc' = NotifyAll(dpc)
    /\ updates' = RecConn(updates, [updates EXCEPT ![c] = UpdatesNone])
    /\ UNCHANGED <<stopRequested, stopLock, cpc, connLocal, nStops, recording, late,
                   recordingConn, drained, drainHist>>

\* lines 74..76: CreateAsUpgrade returned null: return.
UpgradeFails(c) ==
    /\ cpc[c] = "idle"
    /\ nOpens < MaxOpens
    /\ nOpens' = nOpens + 1
    /\ updates' = RecConn(updates, [updates EXCEPT ![c] = UpdatesNone])
    /\ UNCHANGED <<shared, cpc, dpc, connLocal, nStops, recording, late, recordingConn, drained, drainHist>>

\* lines 74..78: CreateAsUpgrade returned the WebSocketServer.
CreateAsUpgrade(c) ==
    /\ cpc[c] = "idle"
    /\ nOpens < MaxOpens
    /\ nOpens' = nOpens + 1
    /\ ws' = [ws EXCEPT ![c] = "open"]
    /\ cpc' = [cpc EXCEPT ![c] = "upgraded"]
    /\ updates' = RecConn(updates, [updates EXCEPT ![c] = UpdatesNone])
    /\ UNCHANGED <<shared, dpc, eventHandlers, subscriberData, iter, hadBad, subLog, nStops,
                   recording, late, recordingConn, drained, drainHist>>

\* line 68, in UpdateConnected(1) (line 79) and UpdateConnected(-1) (line 138):
\* the lock_guard acquires stopLock.
UpdateConnectedLock(c) ==
    /\ cpc[c] \in {"upgraded", "close_lock"}
    /\ stopLock = NoThread
    /\ stopLock' = c
    /\ cpc' = [cpc EXCEPT ![c] = IF cpc[c] = "upgraded" THEN "open_add" ELSE "close_add"]
    /\ UNCHANGED <<debuggersConnected, stopRequested, dpc, connLocal, nOpens, nStops, recording, connHist, drained,
                   drainHist>>

\* lines 69..71: the counter update and notify_all under the lock, which the
\* lock_guard then releases; after UpdateConnected(-1) the function returns
\* (line 139) and its locals go out of scope.
UpdateConnectedAdd(c) ==
    /\ cpc[c] \in {"open_add", "close_add"}
    /\ stopLock = c
    /\ LET delta == IF cpc[c] = "open_add" THEN 1 ELSE -1 IN
          /\ debuggersConnected' = AddDelta(debuggersConnected, delta)
          /\ dpc' = NotifyAll(dpc)
          /\ pending' = Rec(pending, IF delta = -1
                                      THEN [d \in Drainers |-> pending[d] \ {c}]
                                      ELSE pending)
          /\ updates' = RecConn(updates, [updates EXCEPT ![c] =
                                        IF delta = 1 THEN [@ EXCEPT !.inc = @ + 1]
                                                     ELSE [@ EXCEPT !.dec = @ + 1]])
          /\ late' = RecConn(late, [late EXCEPT ![c] =
                                        IF delta = 1
                                        THEN [callers |-> {d \in Drainers : Blocked(d)},
                                              flag |-> stopRequested]
                                        ELSE LateNone])
    /\ stopLock' = NoThread
    /\ cpc' = [cpc EXCEPT ![c] = IF cpc[c] = "open_add" THEN "init" ELSE "idle"]
    /\ IF cpc[c] = "close_add"
       THEN /\ eventHandlers' = [eventHandlers EXCEPT ![c] = EmptyTable]
            /\ subscriberData' = [subscriberData EXCEPT ![c] = <<>>]
            /\ hadBad' = [hadBad EXCEPT ![c] = {}]
            /\ subLog' = [subLog EXCEPT ![c] = <<>>]
       ELSE UNCHANGED <<eventHandlers, subscriberData, hadBad, subLog>>
    /\ UNCHANGED <<stopRequested, ws, iter, nOpens, nStops, recording, recordingConn, drained,
                   active, hist>>

\* lines 81..116: the broadcasters, the dispatch table and the subscriber
\* contexts are built and the two handlers are installed.
InitConnection(c) ==
    /\ cpc[c] = "init"
    /\ eventHandlers' = [eventHandlers EXCEPT ![c] = BuildHandlers(subscribers, EmptyTable)]
    /\ subscriberData' = [subscriberData EXCEPT ![c] = BuildData(subscribers)]
    /\ subLog' = [subLog EXCEPT ![c] = InitCalls(subscribers)]
    /\ cpc' = [cpc EXCEPT ![c] = "process"]
    /\ UNCHANGED <<shared, dpc, ws, iter, hadBad, nOpens, nStops, recording, connHist, drained, drainHist>>

\* lines 91..122, were ws one object shared by the threads, so that what one
\* connection's handlers send is sent on every connection
LoopBodySharedWs(c, M, A) ==
    /\ cpc[c] = "process"
    /\ ws[c] \in {"open", "closing"}
    /\ \E m \in M \cup {NoMsg}, act \in A :
          LET r == IF m = NoMsg
                   THEN [sent |-> <<>>, invoked |-> NoHandler, trace |-> <<>>, close |-> FALSE]
                   ELSE OnFrame(m, eventHandlers[c], act)
              kind == IF m = NoMsg THEN "ok" ELSE ErrorKind(m, eventHandlers[c]) IN
          /\ iter' = [o \in Conns |->
                        [msg |-> m, act |-> IF r.invoked = NoHandler THEN "none" ELSE act,
                         sent |-> r.sent, invoked |-> r.invoked,
                         trace |-> r.trace \o BroadcastOrder, close |-> r.close]]
          /\ ws' = [ws EXCEPT ![c] = IF r.close THEN "closing" ELSE ws[c]]
          /\ hadBad' = [hadBad EXCEPT ![c] = IF kind = "ok" THEN hadBad[c]
                                             ELSE hadBad[c] \cup {kind}]
    /\ cpc' = [cpc EXCEPT ![c] = "checkstop"]
    /\ UNCHANGED <<shared, dpc, eventHandlers, subscriberData, subLog, nOpens, nStops,
                   recording, connHist, drained, drainHist>>

\* lines 118..122: ws->Process returned true, after it handed the frame that
\* arrived (if one did) to its handler; then the three broadcasters are polled.
LoopBody(c, M, A) ==
    /\ cpc[c] = "process"
    /\ ws[c] \in {"open", "closing"}
    /\ \E m \in M \cup {NoMsg}, act \in A :
          LET r == IF m = NoMsg
                   THEN [sent |-> <<>>, invoked |-> NoHandler, trace |-> <<>>, close |-> FALSE]
                   ELSE OnFrame(m, eventHandlers[c], act)
              kind == IF m = NoMsg THEN "ok" ELSE ErrorKind(m, eventHandlers[c]) IN
          /\ iter' = [iter EXCEPT ![c] =
                        [msg |-> m, act |-> IF r.invoked = NoHandler THEN "none" ELSE act,
                         sent |-> r.sent, invoked |-> r.invoked,
                         trace |-> r.trace \o BroadcastOrder, close |-> r.close]]
          /\ ws' = [ws EXCEPT ![c] = IF r.close THEN "closing" ELSE ws[c]]
          /\ hadBad' = [hadBad EXCEPT ![c] = IF kind = "ok" THEN hadBad[c]
                                             ELSE hadBad[c] \cup {kind}]
    /\ cpc' = [cpc EXCEPT ![c] = "checkstop"]
    /\ UNCHANGED <<shared, dpc, eventHandlers, subscriberData, subLog, nOpens, nStops,
                   recording, connHist, drained, drainHist>>

\* line 118: ws->Process returned false (closed by the peer, by an error, or
\* after the local Close): the loop exits.
ProcessFalse(c) ==
    /\ cpc[c] = "process"
    /\ ws' = [ws EXCEPT ![c] = "closed"]
    /\ cpc' = [cpc EXCEPT ![c] = "teardown"]
    /\ active' = Rec(active, [d \in Drainers |-> active[d] \ {c}])
    /\ UNCHANGED <<shared, dpc, eventHandlers, subscriberData, iter, hadBad, subLog, nOpens,
                   nStops, recording, connHist, drained, pending, hist>>

\* lines 124..126: if (stopRequested) ws->Close(GOING_AWAY); the iteration ends.
CheckStop(c) ==
    /\ cpc[c] = "checkstop"
    /\ ws' = [ws EXCEPT ![c] = IF ShouldClose(stopRequested) THEN "closing" ELSE ws[c]]
    /\ iter' = [iter EXCEPT ![c] = IterNone]
    /\ cpc' = [cpc EXCEPT ![c] = "process"]
    /\ UNCHANGED <<shared, dpc, eventHandlers, subscriberData, hadBad, subLog, nOpens, nStops,
                   recording, connHist, drained, drainHist>>

\* lines 129..135: each subscriber that has a shutdown gets its context; one
\* that has none must have returned no context.
Teardown(c) ==
    /\ cpc[c] = "teardown"
    /\ \A i \in 1..Len(subscribers) :
          subscribers[i].shutdown = NULL => subscriberData[c][i] = NULL
    /\ subLog' = [subLog EXCEPT ![c] = @ \o ShutdownCalls(subscribers, subscriberData[c], 1)]
    /\ cpc' = [cpc EXCEPT ![c] = "delete"]
    /\ UNCHANGED <<shared, dpc, ws, eventHandlers, subscriberData, iter, hadBad, nOpens, nStops,
                   recording, connHist, drained, drainHist>>

\* line 137, were the transport not deleted
DeleteWsLeft(c) ==
    /\ cpc[c] = "delete"
    /\ cpc' = [cpc EXCEPT ![c] = "close_lock"]
    /\ UNCHANGED <<shared, dpc, connLocal, nOpens, nStops, recording, connHist, drained, drainHist>>

\* line 137: delete ws
DeleteWs(c) ==
    /\ cpc[c] = "delete"
    /\ ws' = [ws EXCEPT ![c] = NULL]
    /\ cpc' = [cpc EXCEPT ![c] = "close_lock"]
    /\ UNCHANGED <<shared, dpc, eventHandlers, subscriberData, iter, hadBad, subLog, nOpens,
                   nStops, recording, connHist, drained, drainHist>>

----------------------------------------------------------------------------
(* StopAllDebuggers, lines 141..150 *)

\* The call: the caller is about to construct the unique_lock.
StopCall(d) ==
    /\ dpc[d] = "idle"
    /\ nStops < MaxStops
    /\ nStops' = nStops + 1
    /\ dpc' = [dpc EXCEPT ![d] = "lock"]
    /\ pending' = Rec(pending, [pending EXCEPT ![d] = {c \in Conns : Counted(c)}])
    /\ active' = Rec(active, [active EXCEPT ![d] = {c \in Conns : Active(c)}])
    /\ hist' = Rec(hist, [hist EXCEPT ![d] = [HistInit EXCEPT !.atCall = debuggersConnected]])
    /\ UNCHANGED <<shared, cpc, connLocal, nOpens, recording, connHist, drained>>

\* line 142: the unique_lock acquires stopLock; line 145: wait reacquires it
\* after a notification or a spurious wake-up.
StopLock(d) ==
    /\ dpc[d] \in {"lock", "woken"}
    /\ stopLock = NoThread
    /\ stopLock' = d
    /\ dpc' = [dpc EXCEPT ![d] = "check"]
    /\ UNCHANGED <<debuggersConnected, stopRequested, cpc, connLocal, nOpens, nStops, recording, connHist, drained,
                   drainHist>>

\* lines 143..145: the loop condition holds: stopRequested = true, then
\* stopCond.wait(guard) releases stopLock and blocks.
StopWait(d) ==
    /\ dpc[d] = "check"
    /\ stopLock = d
    /\ LoopCond(debuggersConnected)
    /\ stopRequested' = SetValue
    /\ stopLock' = NoThread
    /\ dpc' = [dpc EXCEPT ![d] = "waiting"]
    /\ hist' = Rec(hist, [hist EXCEPT ![d] =
                             [@ EXCEPT !.first = IF @ = "none"
                                                 THEN FirstSeen(debuggersConnected) ELSE @,
                                       !.didSet = TRUE, !.waited = TRUE]])
    /\ UNCHANGED <<debuggersConnected, cpc, connLocal, nOpens, nStops, recording, connHist, drained, pending, active>>

\* line 145: condition_variable::wait may wake without a notification.
SpuriousWake(d) ==
    /\ dpc[d] = "waiting"
    /\ dpc' = [dpc EXCEPT ![d] = "woken"]
    /\ UNCHANGED <<shared, cpc, connLocal, nOpens, nStops, recording, connHist, drained, drainHist>>

\* lines 143 and 149: the loop condition fails: stopRequested = false
StopReset(d) ==
    /\ dpc[d] = "check"
    /\ stopLock = d
    /\ ~LoopCond(debuggersConnected)
    /\ stopRequested' = ResetValue
    /\ dpc' = [dpc EXCEPT ![d] = "ret"]
    /\ hist' = Rec(hist, [hist EXCEPT ![d].first =
                             IF @ = "none" THEN FirstSeen(debuggersConnected) ELSE @])
    /\ UNCHANGED <<debuggersConnected, stopLock, cpc, connLocal, nOpens, nStops, recording, connHist, drained,
                   pending, active>>

\* line 150: the unique_lock releases stopLock and the call returns.
StopReturn(d) ==
    /\ dpc[d] = "ret"
    /\ stopLock = d
    /\ stopLock' = NoThread
    /\ dpc' = [dpc EXCEPT ![d] = "idle"]
    /\ pending' = Rec(pending, [pending EXCEPT ![d] = {}])
    /\ active' = Rec(active, [active EXCEPT ![d] = {}])
    /\ hist' = Rec(hist, [hist EXCEPT ![d] = HistInit])
    /\ drained' = Rec(drained, IF hist[d].waited THEN drained + 1 ELSE drained)
    /\ UNCHANGED <<debuggersConnected, stopRequested, cpc, connLocal, nOpens, nStops, recording, connHist>>

----------------------------------------------------------------------------
(* Specifications *)

\* The frame drawn where two connections and two drainers run concurrently:
\* a request for a registered event.
CoreMsgs ==
    { [frame |-> "text", wellFormed |-> TRUE, hasRoot |-> TRUE, event |-> "game.status",
       ticket |-> NoTicket] }

\* What the handler does with it there: it sends its response.
CoreActs == {"respond"}

ConnStep(c, M, A) ==
    \/ UpgradeFails(c)
    \/ CreateAsUpgrade(c)
    \/ UpdateConnectedLock(c)
    \/ UpdateConnectedAdd(c)
    \/ InitConnection(c)
    \/ LoopBody(c, M, A)
    \/ ProcessFalse(c)
    \/ CheckStop(c)
    \/ Teardown(c)
    \/ DeleteWs(c)

DrainStep(d) ==
    \/ StopCall(d)
    \/ StopLock(d)
    \/ StopWait(d)
    \/ SpuriousWake(d)
    \/ StopReset(d)
    \/ StopReturn(d)

\* Two connection threads and two StopAllDebuggers callers.
Next ==
    \/ \E c \in Conns : ConnStep(c, CoreMsgs, CoreActs)
    \/ \E d \in Drainers : DrainStep(d)

Spec == Init /\ [][Next]_vars

\* One connection thread that receives every kind of frame, and one drainer.
NextMsg ==
    \/ ConnStep("c1", AllMsgs, HandlerActs)
    \/ DrainStep("d1")

SpecMsg == Init /\ [][NextMsg]_vars

\* A connection thread that receives every kind of frame next to one that
\* receives requests for a registered event, and one drainer; no history is kept.
NextPair ==
    \/ ConnStep("c1", AllMsgs, HandlerActs)
    \/ ConnStep("c2", CoreMsgs, CoreActs)
    \/ DrainStep("d1")

SpecPair == InitBoth(FALSE, FALSE) /\ [][NextPair]_vars

\* The threads of Spec, with the histories of the HandleDebuggerRequest calls
\* kept in place of those of the StopAllDebuggers calls.
SpecConn == InitBoth(FALSE, TRUE) /\ [][Next]_vars

\* Scheduling: a thread that can take a step of its call is eventually given
\* one (Process returns, a notified waiter runs); a thread blocked on stopLock
\* acquires it if it is free again and again (other threads, a waiter that
\* wakes spuriously among them, may take it in between); once Close has been
\* requested, Process reports closure after finitely many calls.  Nothing
\* obliges a peer to connect, a caller to call StopAllDebuggers, a peer to
\* close, or a wait to wake spuriously.
ConnProgress(c) ==
    \/ UpdateConnectedLock(c)
    \/ UpdateConnectedAdd(c)
    \/ InitConnection(c)
    \/ LoopBody(c, CoreMsgs, CoreActs)
    \/ ProcessFalse(c)
    \/ CheckStop(c)
    \/ Teardown(c)
    \/ DeleteWs(c)

DrainProgress(d) ==
    \/ StopLock(d)
    \/ StopWait(d)
    \/ StopReset(d)
    \/ StopReturn(d)

ClosureReported(c) == ws[c] = "closing" /\ ProcessFalse(c)

Fairness ==
    /\ \A c \in Conns : /\ WF_vars(ConnProgress(c))
                        /\ SF_vars(UpdateConnectedLock(c))
                        /\ SF_vars(ClosureReported(c))
    /\ \A d \in Drainers : /\ WF_vars(DrainProgress(d))
                           /\ SF_vars(StopLock(d))

\* The termination property needs no history, so none is kept here.
FairSpec == InitWith(FALSE) /\ [][Next]_vars /\ Fairness

----------------------------------------------------------------------------
(* Properties of the shutdown synchronisation *)

InProgress(d) == dpc[d] # "idle"
NoDrainInProgress == \A d \in Drainers : ~InProgress(d)

\* C1: a StopAllDebuggers call that has left its loop and is about to return
\* holds stopLock, the counter is 0, no connection is counted, and every
\* connection that was counted when it was called has executed UpdateConnected(-1).
C1_ReturnsOnlyAtZero ==
    \A d \in Drainers :
        dpc[d] = "ret" =>
            /\ stopLock = d
            /\ debuggersConnected = 0
            /\ pending[d] = {}
            /\ \A c \in Conns : ~Counted(c)

\* A call made with both connections counted has waited and is about to return.
C1_Witness ==
    \E d \in Drainers :
        dpc[d] = "ret" /\ hist[d].atCall = 2 /\ hist[d].waited /\ debuggersConnected = 0

\* C2: under the scheduling of FairSpec, where at most MaxOpens connections
\* are ever opened, every StopAllDebuggers call eventually returns.
C2_StopEventuallyReturns ==
    \A d \in Drainers : (dpc[d] # "idle") ~> (dpc[d] = "idle")

\* Two concurrent callers: one is about to return and has reset the flag,
\* the other has waited, has been woken and still has to reacquire stopLock.
C2_Witness ==
    \E d, e \in Drainers :
        /\ d # e
        /\ dpc[d] = "ret"
        /\ dpc[e] = "woken"
        /\ debuggersConnected = 0
        /\ nOpens = 2

\* C3 as stated: stopRequested implies debuggersConnected > 0.
C3_FlagImpliesConnected == stopRequested => debuggersConnected > 0

\* C3 amended: stopRequested is true only while a StopAllDebuggers call that
\* has set it is still in its loop; the counter may already be 0 then, but
\* only while such a caller has been woken and has not yet reacquired
\* stopLock, or holds it and is about to reset the flag.
C3_FlagOnlyDuringDrain ==
    /\ stopRequested =>
          \E d \in Drainers : hist[d].didSet /\ dpc[d] \in {"waiting", "woken", "check"}
    /\ (stopRequested /\ debuggersConnected = 0) =>
          /\ \E d \in Drainers : hist[d].didSet /\ dpc[d] \in {"woken", "check"}
          /\ \A d \in Drainers : dpc[d] # "waiting"

\* The counter is 0, the flag is still true, and the waiter has been woken.
C3_Witness ==
    /\ stopRequested
    /\ debuggersConnected = 0
    /\ \E d \in Drainers : dpc[d] = "woken" /\ hist[d].waited

\* C4 as stated: when StopAllDebuggers is about to return, no connection whose
\* upgrade succeeded before the call is still in, or about to enter, its loop.
C4_AllActiveDrained ==
    \A d \in Drainers : dpc[d] = "ret" => active[d] = {}

\* C5: stopRequested goes from true to false only in the step of a caller
\* that holds stopLock and finds the counter 0; and a connection that has
\* requested close because it read the flag as true finds it true as long as
\* it is in its loop.
C5_ResetOnlyAtZero ==
    /\ [][ (stopRequested /\ ~stopRequested') =>
              \E d \in Drainers : /\ stopLock = d
                                  /\ dpc[d] = "check"
                                  /\ dpc'[d] = "ret"
                                  /\ debuggersConnected = 0 ]_vars
    /\ [](\A c \in Conns : ws[c] = "closing" => (Counted(c) /\ stopRequested))

\* A connection that has read the flag as true is about to read it again.
C5_Witness ==
    \E c \in Conns : cpc[c] = "checkstop" /\ ws[c] = "closing" /\ stopRequested

C7_ZeroAtCallNeverWaits ==
    \A d \in Drainers : hist[d].atCall = 0 => (~hist[d].didSet /\ ~hist[d].waited)

\* C7 amended: a call that finds the counter 0 when it first tests the loop
\* condition, holding stopLock, neither sets stopRequested nor waits.
C7_ZeroAtFirstCheckNeverWaits ==
    \A d \in Drainers : hist[d].first = "zero" => (~hist[d].didSet /\ ~hist[d].waited)

\* A call made at 0 that found 0 at its first test is about to return.
C7_Witness ==
    \E d \in Drainers :
        dpc[d] = "ret" /\ hist[d].atCall = 0 /\ hist[d].first = "zero" /\ ~hist[d].waited

----------------------------------------------------------------------------
(* Properties of the handling of one frame, stated on the record iter[c] of
   the iteration that handled it and on the fields of the frame itself *)

RegisteredNames == {"cpu.getAllRegs", "game.status"}
Owner(e) == IF e = "cpu.getAllRegs" THEN "WebSocketCPUCoreInit" ELSE "WebSocketGameInit"

\* A text frame whose JSON parsed and has an event field.
IsDispatchAttempt(m) ==
    m.frame = "text" /\ m.wellFormed /\ m.hasRoot /\ m.event # NoEvent

\* Invalid JSON, no event field, an unregistered event, or a binary frame.
IsProtocolError(m) ==
    \/ m.frame = "binary"
    \/ m.frame = "text" /\ ~(IsDispatchAttempt(m) /\ m.event \in RegisteredNames)

OneError(sent, message) ==
    /\ Len(sent) = 1
    /\ sent[1].kind = "error"
    /\ sent[1].event = "error"
    /\ sent[1].message = message

C9_ProtocolErrorKeepsConnection ==
    /\ [][ \A c \in Conns :
              (cpc[c] = "process" /\ cpc'[c] = "checkstop" /\ IsProtocolError(iter'[c].msg)) =>
                  /\ ws'[c] = ws[c]
                  /\ ~iter'[c].close
                  /\ eventHandlers'[c] = eventHandlers[c]
                  /\ iter'[c].invoked = NoHandler ]_vars
    /\ [](\A c \in Conns :
              (hadBad[c] # {} /\ IsDispatchAttempt(iter[c].msg)
                 /\ iter[c].msg.event \in RegisteredNames) =>
                  /\ cpc[c] = "checkstop"
                  /\ iter[c].invoked = Owner(iter[c].msg.event)
                  /\ Len(iter[c].sent) = 1
                  /\ iter[c].sent[1].ticket = iter[c].msg.ticket)

\* After all four kinds of protocol error the connection is open and has
\* just dispatched a request to its handler.
C9_Witness ==
    \E c \in Conns :
        /\ hadBad[c] = {"binary", "invalid JSON", "no event", "unknown event"}
        /\ cpc[c] = "checkstop"
        /\ ws[c] = "open"
        /\ iter[c].invoked = "WebSocketGameInit"

\* C10: for a text frame the first failing check, in the order parse, event
\* field, table lookup, decides the one error sent, and no handler runs; a
\* handler runs only for an event name that is exactly a registered one.
C10_FirstFailingCheck ==
    \A c \in Conns :
        LET it == iter[c]
            m == iter[c].msg IN
        m.frame = "text" =>
            /\ ~m.wellFormed =>
                  (OneError(it.sent, "Bad message: invalid JSON") /\ it.invoked = NoHandler)
            /\ (m.wellFormed /\ (~m.hasRoot \/ m.event = NoEvent)) =>
                  (OneError(it.sent, "Bad message: no event property")
                     /\ it.invoked = NoHandler)
            /\ (IsDispatchAttempt(m) /\ m.event \notin RegisteredNames) =>
                  (OneError(it.sent, "Bad message: unknown event") /\ it.invoked = NoHandler)
            /\ it.invoked # NoHandler =>
                  (IsDispatchAttempt(m) /\ m.event \in RegisteredNames
                     /\ it.invoked = Owner(m.event))

\* A payload that does not parse but whose text names a registered event
\* has been answered with the invalid-JSON error.
C10_Witness ==
    \E c \in Conns :
        /\ iter[c].msg.frame = "text"
        /\ ~iter[c].msg.wellFormed
        /\ iter[c].msg.event = "cpu.getAllRegs"
        /\ OneError(iter[c].sent, "Bad message: invalid JSON")

----------------------------------------------------------------------------
(* Properties of the error paths *)

Errors(sent) == { i \in 1..Len(sent) : sent[i].kind = "error" }

\* C11 as stated: every error sent in answer to a frame carries the ticket the
\* frame's payload holds, and none if it holds none, on every error path.
C11_TicketEchoedOnEveryPath ==
    \A c \in Conns :
        \A i \in Errors(iter[c].sent) : iter[c].sent[i].ticket = iter[c].msg.ticket

\* C11 amended: an error sent for a text frame whose JSON parsed (no event
\* property, unknown event, failure reported by the handler) carries the
\* ticket of the parsed root, and none if the root has none; the error sent
\* for a text frame that does not parse and the error sent for a binary frame
\* carry no ticket, whatever the payload holds.
C11_TicketEchoedWhenParsed ==
    \A c \in Conns :
        LET m == iter[c].msg IN
        \A i \in Errors(iter[c].sent) :
            iter[c].sent[i].ticket =
                IF m.frame = "text" /\ m.wellFormed /\ m.hasRoot THEN m.ticket ELSE NoTicket

\* A parsed text frame with a ticket and no event property has been answered
\* with the no-event error, which repeats the ticket.
C11_Witness ==
    \E c \in Conns :
        /\ iter[c].msg.frame = "text"
        /\ iter[c].msg.wellFormed /\ iter[c].msg.hasRoot
        /\ iter[c].msg.event = NoEvent
        /\ iter[c].msg.ticket = "t1"
        /\ OneError(iter[c].sent, "Bad message: no event property")
        /\ iter[c].sent[1].ticket = "t1"

InTrace(trace, step) == \E i \in 1..Len(trace) : trace[i] = step

\* C12: a binary frame, whatever its payload holds, is answered with exactly
\* one "Bad message" error; its payload is not parsed, the dispatch table is
\* not consulted and no handler is invoked.
C12_BinaryNeverDispatched ==
    \A c \in Conns :
        iter[c].msg.frame = "binary" =>
            /\ OneError(iter[c].sent, "Bad message")
            /\ iter[c].sent[1].level = 2
            /\ iter[c].invoked = NoHandler
            /\ iter[c].act = "none"
            /\ ~InTrace(iter[c].trace, "parse")
            /\ ~InTrace(iter[c].trace, "lookup")
            /\ ~InTrace(iter[c].trace, "handler")

\* A binary frame whose payload is a well-formed request for a registered
\* event has been answered with the one error.
C12_Witness ==
    \E c \in Conns :
        /\ iter[c].msg.frame = "binary"
        /\ iter[c].msg.wellFormed /\ iter[c].msg.hasRoot
        /\ iter[c].msg.event = "cpu.getAllRegs"
        /\ OneError(iter[c].sent, "Bad message")

----------------------------------------------------------------------------
(* Properties of the connection's life cycle *)

\* C13: a step in which a HandleDebuggerRequest call returns because
\* CreateAsUpgrade returned null changes neither debuggersConnected nor
\* stopRequested nor stopLock, wakes no waiter, creates no transport, builds
\* no table, calls no subscriber, polls no broadcaster and sends nothing.
C13_FailedUpgradeNoEffect ==
    [][ (nOpens' # nOpens /\ cpc' = cpc) =>
            /\ debuggersConnected' = debuggersConnected
            /\ stopRequested' = stopRequested
            /\ stopLock' = stopLock
            /\ dpc' = dpc
            /\ ws' = ws
            /\ eventHandlers' = eventHandlers
            /\ subscriberData' = subscriberData
            /\ subLog' = subLog
            /\ iter' = iter ]_vars

\* The one request served so far was one whose upgrade failed: no thread has
\* updated the counter, and nothing exists.
C13_Witness ==
    /\ nOpens = 1
    /\ debuggersConnected = 0
    /\ \A c \in Conns : /\ cpc[c] = "idle"
                         /\ updates[c] = UpdatesNone
                         /\ ws[c] = NULL
                         /\ subLog[c] = <<>>

\* The connections that have executed UpdateConnected(1) and not yet
\* UpdateConnected(-1) in their current call.
CountedNow == { c \in Conns : updates[c].inc = 1 /\ updates[c].dec = 0 }

\* C14: the counter is never negative and is the number of connections that
\* have executed UpdateConnected(1) and not yet UpdateConnected(-1); a call
\* increments once, before its loop, and decrements once, before it returns;
\* the counter changes only in a step of a connection that holds stopLock
\* inside UpdateConnected, and the flag only in a step of a caller that
\* holds stopLock.
C14_CounterIsConnectionCount ==
    /\ [](debuggersConnected >= 0)
    /\ [](debuggersConnected = Cardinality(CountedNow))
    /\ [](\A c \in Conns :
              /\ cpc[c] \in {"upgraded", "open_add"} => updates[c] = [inc |-> 0, dec |-> 0]
              /\ Counted(c) <=> c \in CountedNow
              /\ cpc[c] = "idle" => updates[c].inc = updates[c].dec
              /\ updates[c].inc <= 1 /\ updates[c].dec <= updates[c].inc)
    /\ [][ debuggersConnected' # debuggersConnected =>
              /\ stopLock \in Conns
              /\ cpc[stopLock] \in {"open_add", "close_add"}
              /\ cpc'[stopLock] # cpc[stopLock]
              /\ debuggersConnected' - debuggersConnected =
                     (IF cpc[stopLock] = "open_add" THEN 1 ELSE -1) ]_vars
    /\ [][ stopRequested' # stopRequested =>
              (stopLock \in Drainers /\ dpc'[stopLock] # dpc[stopLock]) ]_vars

\* One call has incremented and decremented and has returned, while another
\* connection is counted and in its loop: the counter is 1.
C14_Witness ==
    /\ debuggersConnected = 1
    /\ \E c, o \in Conns :
          /\ cpc[c] = "idle" /\ updates[c] = [inc |-> 1, dec |-> 1]
          /\ cpc[o] = "checkstop" /\ updates[o] = [inc |-> 1, dec |-> 0]

InLoop(c) == cpc[c] \in {"process", "checkstop"}

\* C15: the step that ends an iteration (lines 124..126) requests close if
\* and only if it reads stopRequested as true, so a transport is never
\* closing after a check that read false; the rest of the iteration never
\* requests close; and while a connection is in its loop a flag that is set
\* stays set, so the first check a connection makes after the flag was set
\* reads it as true and requests close.
C15_CloseIffFlagRead ==
    /\ [][ \A c \in Conns :
              (cpc[c] = "checkstop" /\ cpc'[c] = "process") =>
                  /\ stopRequested => ws'[c] = "closing"
                  /\ ~stopRequested => (ws'[c] = "open" /\ ws[c] = "open") ]_vars
    /\ [][ \A c \in Conns :
              (cpc[c] = "process" /\ cpc'[c] = "checkstop") => ws'[c] = ws[c] ]_vars
    /\ [][ \A c \in Conns : (stopRequested /\ InLoop(c)) => stopRequested' ]_vars
    /\ [](\A c \in Conns : ws[c] = "closing" => (InLoop(c) /\ stopRequested))

\* A connection has ended an iteration with the flag read as true: it has
\* requested close and is about to call Process again, while another
\* connection is still in an iteration that began before.
C15_Witness ==
    \E c, o \in Conns :
        /\ cpc[c] = "process" /\ ws[c] = "closing"
        /\ cpc[o] = "checkstop" /\ ws[o] = "open"
        /\ stopRequested

Polls == {"log", "game", "stepping"}

\* C16: when an iteration has reached the test of stopRequested, its last
\* three steps are the polls of the log, game and stepping broadcasters, in
\* this order, and no other step of it is a poll; they follow every step of
\* the handling of the frame (the handler and Finish among them), and an
\* iteration without a frame consists of them only.  No iteration is
\* recorded at any other position of the loop.
C16_BroadcastersPolledInOrder ==
    \A c \in Conns :
        LET t == iter[c].trace
            n == Len(t) IN
        /\ cpc[c] = "checkstop" =>
              /\ n >= 3
              /\ t[n - 2] = "log" /\ t[n - 1] = "game" /\ t[n] = "stepping"
              /\ \A i \in 1..(n - 3) : t[i] \notin Polls
              /\ iter[c].msg = NoMsg <=> n = 3
              /\ iter[c].invoked # NoHandler =>
                    (n >= 5 /\ t[n - 4] = "handler" /\ t[n - 3] = "finish")
        /\ cpc[c] # "checkstop" => iter[c] = IterNone

\* A request was dispatched to its handler and finished, then the three
\* broadcasters were polled, and the flag is about to be read.
C16_Witness ==
    \E c \in Conns :
        /\ cpc[c] = "checkstop"
        /\ iter[c].trace = <<"parse", "event", "lookup", "handler", "finish",
                             "log", "game", "stepping">>

NSubs == Len(subscribers)

\* The calls a connection has made to its subscribers are the inits, one per
\* subscriber, in the order of the list.
InitsDone(log) ==
    /\ Len(log) >= NSubs
    /\ \A i \in 1..NSubs :
          /\ log[i].op = "init" /\ log[i].sub = i /\ log[i].fn = subscribers[i].init
    /\ log[1].fn = "WebSocketCPUCoreInit"
    /\ log[2].fn = "WebSocketGameInit"

\* C17: from the first call of Process to the exit of the loop the calls made
\* to the subscribers are exactly the inits, once each in the order of the
\* list, and no frame is handled before them; after the teardown loop they
\* are followed, in the same order, by one call of the shutdown of each
\* subscriber that declares one, with the context its init returned
\* (which is the one kept in subscriberData), and for each subscriber that
\* declares none by nothing but the assertion that its context is null.
C17_InitThenTeardownInOrder ==
    \A c \in Conns :
        LET log == subLog[c] IN
        /\ cpc[c] \in {"idle", "upgraded", "open_add", "init"} =>
              (log = <<>> /\ iter[c].msg = NoMsg)
        /\ cpc[c] \in {"process", "checkstop", "teardown"} =>
              (InitsDone(log) /\ Len(log) = NSubs)
        /\ cpc[c] \in {"process", "checkstop", "teardown", "delete"} =>
              \A i \in 1..NSubs : subscriberData[c][i] = log[i].ctx
        /\ cpc[c] \in {"delete", "close_lock", "close_add"} =>
              /\ InitsDone(log)
              /\ Len(log) = 2 * NSubs
              /\ \A i \in 1..NSubs :
                    LET e == log[NSubs + i] IN
                    /\ e.sub = i
                    /\ e.ctx = log[i].ctx
                    /\ subscribers[i].shutdown # NULL =>
                          (e.op = "shutdown" /\ e.fn = subscribers[i].shutdown)
                    /\ subscribers[i].shutdown = NULL =>
                          (e.op = "assert" /\ e.ctx = NULL)

\* The loop has exited and the teardown loop has run: neither subscriber
\* declares a shutdown, so it has asserted both contexts null and called nothing.
C17_Witness ==
    \E c \in Conns :
        /\ cpc[c] = "delete"
        /\ Len(subLog[c]) = 4
        /\ subLog[c][1].op = "init" /\ subLog[c][2].op = "init"
        /\ subLog[c][3].op = "assert" /\ subLog[c][4].op = "assert"

----------------------------------------------------------------------------
(* Frame conditions *)

\* What belongs to connection o: its position, transport, dispatch table,
\* subscriber contexts, subscriber calls and the record of its iteration.
OwnState(o) == <<cpc[o], ws[o], eventHandlers[o], subscriberData[o], subLog[o], iter[o]>>

\* C18: the step in which a connection handles a frame (or finds none) and
\* polls its broadcasters changes neither the counter nor the flag nor the
\* lock nor the position of any StopAllDebuggers caller, and nothing that
\* belongs to another connection; no step of a connection changes what
\* belongs to another; no step of a connection outside UpdateConnected
\* changes the shutdown state; the counter changes only in the step of
\* UpdateConnected(1) that leads to the init of the subscribers and in the
\* step of UpdateConnected(-1) that returns; no step of a connection changes the flag.
C18_MessageHandlingIsLocal ==
    /\ [][ \A c \in Conns :
              (cpc[c] = "process" /\ cpc'[c] = "checkstop") =>
                  /\ debuggersConnected' = debuggersConnected
                  /\ stopRequested' = stopRequested
                  /\ stopLock' = stopLock
                  /\ dpc' = dpc
                  /\ \A o \in Conns \ {c} : OwnState(o)' = OwnState(o) ]_vars
    /\ [][ \A c \in Conns :
              cpc'[c] # cpc[c] =>
                  /\ \A o \in Conns \ {c} : OwnState(o)' = OwnState(o)
                  /\ stopRequested' = stopRequested
                  /\ cpc[c] \notin {"upgraded", "open_add", "close_lock", "close_add"} =>
                        (debuggersConnected' = debuggersConnected
                           /\ stopLock' = stopLock /\ dpc' = dpc) ]_vars
    /\ [][ debuggersConnected' # debuggersConnected =>
              \E c \in Conns :
                  \/ cpc[c] = "open_add" /\ cpc'[c] = "init"
                  \/ cpc[c] = "close_add" /\ cpc'[c] = "idle" ]_vars

\* One connection has answered a binary frame while the other has the
\* response of its handler on record and a StopAllDebuggers call waits for both.
C18_Witness ==
    /\ cpc["c1"] = "checkstop"
    /\ iter["c1"].msg.frame = "binary"
    /\ cpc["c2"] = "checkstop"
    /\ iter["c2"].invoked = "WebSocketGameInit"
    /\ debuggersConnected = 2
    /\ stopRequested

----------------------------------------------------------------------------
(* What a drain waits for *)

TeardownDone(c) == Len(subLog[c]) = 2 * NSubs

\* C19: a connection that is about to execute, or executes, UpdateConnected(-1)
\* has left its loop, has run the teardown loop and has destroyed its
\* transport, and the counter is decremented only by such a connection; so
\* when a StopAllDebuggers call is about to return, every connection that was
\* counted when it was called has decremented, and a transport exists only
\* for a call that was upgraded and has not yet executed UpdateConnected(1).
C19_DecrementAfterTeardown ==
    /\ [](\A c \in Conns :
              cpc[c] \in {"close_lock", "close_add"} =>
                  (ws[c] = NULL /\ TeardownDone(c) /\ iter[c] = IterNone))
    /\ [][ debuggersConnected' < debuggersConnected =>
              \E c \in Conns : /\ cpc[c] = "close_add" /\ cpc'[c] = "idle"
                                /\ ws[c] = NULL /\ TeardownDone(c) ]_vars
    /\ [](\A d \in Drainers :
              dpc[d] = "ret" =>
                  /\ pending[d] = {}
                  /\ \A c \in Conns :
                        /\ cpc[c] \in {"idle", "upgraded", "open_add"}
                        /\ ws[c] # NULL => cpc[c] \in {"upgraded", "open_add"})

\* A call made with both connections counted has waited and is about to
\* return: both have torn down, destroyed their transport and returned.
C19_Witness ==
    \E d \in Drainers :
        /\ dpc[d] = "ret" /\ hist[d].atCall = 2 /\ hist[d].waited
        /\ \A c \in Conns : cpc[c] = "idle" /\ ws[c] = NULL

\* A connection that was counted while at least one caller was blocked.
IsLate(c) == late[c].callers # {}

\* C20 as stated: a connection counted while a caller was blocked requests
\* close at the end of every iteration it completes, its first included, and
\* none of those callers returns before it has executed UpdateConnected(-1).
C20_LateJoinerClosesAtFirstCheck ==
    /\ [][ \A c \in Conns :
              (IsLate(c) /\ cpc[c] = "checkstop" /\ cpc'[c] = "process") =>
                  ws'[c] = "closing" ]_vars
    /\ [](\A c \in Conns : \A d \in late[c].callers :
              dpc[d] \in {"waiting", "woken", "check"})

\* C20 amended: none of the callers that were blocked when the connection was
\* counted returns before the connection has executed UpdateConnected(-1); if
\* stopRequested was true when it was counted, the flag stays true until
\* then and the connection requests close at the end of its first completed
\* iteration; if it was false (another caller had reset it), the flag, once
\* it is set again, stays true until then.
C20_LateJoinerDrainedBySameCall ==
    /\ [](\A c \in Conns : \A d \in late[c].callers :
              Counted(c) /\ dpc[d] \in {"waiting", "woken", "check"})
    /\ [](\A c \in Conns : (IsLate(c) /\ late[c].flag) => stopRequested)
    /\ [][ \A c \in Conns :
              (IsLate(c) /\ late[c].flag /\ cpc[c] = "checkstop" /\ cpc'[c] = "process") =>
                  ws'[c] = "closing" ]_vars
    /\ [][ \A c \in Conns :
              (IsLate(c) /\ stopRequested /\ IsLate(c)') => stopRequested' ]_vars

\* A connection counted while a caller was waiting with the flag set, and
\* with another connection counted, has completed its first iteration and
\* requested close; the caller is still blocked.
C20_Witness ==
    \E c \in Conns, d \in Drainers :
        /\ d \in late[c].callers /\ late[c].flag
        /\ cpc[c] = "process" /\ ws[c] = "closing"
        /\ dpc[d] = "waiting"
        /\ debuggersConnected = 2

====
